---- MODULE Spec2Model ----
(***************************************************************************)
(* Multithreaded caching HTTP proxy.                                       *)
(*                                                                         *)
(* Two translation units are modelled, one behaviour runs one of them:     *)
(*   impl = "final" : src/Final Version/try.c                              *)
(*   impl = "v1"    : src/proxy_server.c                                   *)
(*                                                                         *)
(* Sizes are counted in receive units: one unit is one full receive        *)
(* buffer, so MAX_BYTES is 1 and every recv() that returns data returns    *)
(* one unit.  A payload is a sequence of units; each unit carries the      *)
(* number of the connection whose upstream response it belongs to, 0 is    *)
(* memory that was never written.                                          *)
(*                                                                         *)
(* The list hanging off cache_head is a sequence whose LAST element is the *)
(* head of the C list: a scan visits indices Len(cache), ..., 1.           *)
(***************************************************************************)
EXTENDS Integers, Sequences, FiniteSets, TLC

\* ------------------------------------------------------------------ bounds
\* thread slots that can run handle_client at the same time
NumThreads == 2
\* connections the accept loop takes in one behaviour
MaxConns == 2
\* last value of the wall clock, time(NULL) ranges over 0..MaxTime
MaxTime == 2
\* distinct request targets
NumUrls == 3
\* the semaphore's initial value ranges over 1..MaxClients
MaxClients == 2
\* longest upstream response, in receive units
MaxResp == 3
\* calls made on the cache when it is driven directly
MaxCalls == 3

\* ------------------------------------------------- scaled program constants
\* The byte budgets are scaled down so that a cache holds two or three
\* entries: try.c charges an entry its len, proxy_server.c its len and the
\* overhead of the element and its key.
\* config.max_element_size / MAX_ELEMENT_SIZE, in receive units
max_element_size == 2
\* config.max_cache_size of try.c, in receive units
max_cache_size == 2
\* MAX_CACHE_SIZE of proxy_server.c, in receive units
MAX_CACHE_SIZE == 5
\* MAX_BYTES: one receive buffer is one unit
MAX_BYTES == 1
\* sizeof(cache_element), in the same units
sizeof_cache_element == 1

Threads == 1..NumThreads
Urls == 1..NumUrls

VARIABLES
    impl,            \* which translation unit is built
    relock,          \* what locking an owned PTHREAD_MUTEX_DEFAULT does
    max_clients,     \* value given to sem_init
    now,             \* time(NULL)
    crashed,         \* the process was killed (SIGSEGV / abort)
    conns,           \* connections accepted so far
    connection_semaphore,
    cache_lock,      \* 0 or the thread that owns the mutex
    cache,           \* the list from cache_head, head last
    current_size,    \* cache_stats.current_size (try.c)
    total_cache_size,\* total_cache_size (proxy_server.c)
    total_hits,      \* cache_stats.total_hits
    total_misses,    \* cache_stats.total_misses
    full_response,   \* the static accumulation buffer of handle_client
    allocated_size,  \* its static size
    th               \* per thread: position, locals and what it did

vars == <<impl, relock, max_clients, now, crashed, conns, connection_semaphore,
          cache_lock, cache, current_size, total_cache_size, total_hits,
          total_misses, full_response, allocated_size, th>>

build == <<impl, relock, max_clients>>
cachevars == <<cache, current_size, total_cache_size>>
stats == <<total_hits, total_misses>>
buffer == <<full_response, allocated_size>>

\* ------------------------------------------------------------- requests
\* What recv() can put into buffer[]: the request line's method and target
\* and the declared Content-Length (-1: no such header).  dirt names the
\* one defect of the request, if any ("nohost": no "Host: " header).
Request(m, u, cl, d) == [method |-> m, target |-> u, clen |-> cl, dirt |-> d]

Requests ==
    {Request("GET", u, -1, "none") : u \in Urls}
    \cup {Request("GET", 1, max_element_size + 1, "none"),
          Request("GET", 1, -1, "nohost"),
          Request("POST", 1, -1, "none"),
          Request("GET", 1, -1, "header"),
          Request("GET", 1, -1, "colon"),
          Request("", 0, -1, "nospace")}

\* no request was received
NoRequest == Request("", 0, -1, "none")

\* memset(req, 0, sizeof(struct http_request)); url 0 is the empty string
ZeroReq == [method |-> "", url |-> 0, content_length |-> 0]

\* parse_http_request: every return leaves in req what was stored before it
parse_http_request(b) ==
    IF b.dirt = "nospace" THEN ZeroReq
    ELSE IF b.dirt = "notarget" THEN [ZeroReq EXCEPT !.method = b.method]
    ELSE IF b.dirt \in {"colon", "dslash", "nocrlf", "header"} \/ b.clen < 0
         THEN [method |-> b.method, url |-> b.target, content_length |-> 0]
    ELSE [method |-> b.method, url |-> b.target, content_length |-> b.clen]

\* a send_error_response whose switch has no case for 502
send_error_response_no502(status_code) ==
    IF status_code \in {405, 500} THEN status_code ELSE 500

\* send_error_response of try.c: the status code it writes
send_error_response(status_code) ==
    IF status_code \in {405, 502, 500} THEN status_code ELSE 500

\* ------------------------------------------------------------- threads
NoArg == [url |-> 0, len |-> 0, src |-> "none"]

NoThread ==
    [pc |-> "none", stack |-> <<>>, conn |-> 0, req |-> ZeroReq, key |-> 0,
     element |-> 0, server_socket |-> "none", total_received |-> 0,
     arg |-> NoArg, sent |-> <<>>, status |-> 0, client_closed |-> 0,
     posts |-> 0, acquired |-> 0, request |-> NoRequest, ended |-> "none"]

\* close(client_socket); sem_post(&connection_semaphore); return NULL;
\* the frame's locals are gone, what the thread did stays on record
Return(r) ==
    [NoThread EXCEPT !.pc = "done", !.conn = r.conn, !.sent = r.sent,
                     !.status = r.status, !.acquired = r.acquired,
                     !.server_socket = r.server_socket,
                     !.client_closed = r.client_closed + 1,
                     !.posts = r.posts + 1, !.request = r.request]

\* a sem_post that is left out
sem_post_missing(s) == s

\* sem_post(&connection_semaphore)
sem_post(s) == s + 1

Init ==
    /\ impl \in {"final", "v1"}
    /\ relock \in IF impl = "final" THEN {"deadlock", "EDEADLK"} ELSE {"deadlock"}
    /\ max_clients \in 1..MaxClients
    /\ now = 0
    /\ crashed = FALSE
    /\ conns = 0
    /\ connection_semaphore = max_clients
    /\ cache_lock = 0
    /\ cache = <<>>
    /\ current_size = 0
    /\ total_cache_size = 0
    /\ total_hits = 0
    /\ total_misses = 0
    /\ full_response = [state |-> "NULL", bytes |-> <<>>]
    /\ allocated_size = 0
    /\ th = [t \in Threads |-> NoThread]

\* time(NULL): the clock is read only here, so it advances here; a call
\* returns the last value read or a later one
time(n) == n..MaxTime

\* main: accept() and pthread_create(handle_client).  Thread slots are
\* interchangeable: the new thread takes the lowest free one.
main_accept(t) ==
    /\ ~crashed
    /\ conns < MaxConns
    /\ th[t].pc \in {"none", "done"}
    /\ \A u \in Threads : u < t => th[u].pc \notin {"none", "done"}
    /\ conns' = conns + 1
    /\ th' = [th EXCEPT ![t] = [NoThread EXCEPT !.pc = "sem_wait",
                                                 !.conn = conns + 1]]
    /\ UNCHANGED <<build, now, crashed, connection_semaphore, cache_lock,
                   cachevars, stats, buffer>>

\* sem_wait that does not block at zero
sem_wait_nonblocking(t) ==
    /\ ~crashed
    /\ th[t].pc = "sem_wait"
    /\ connection_semaphore' = connection_semaphore - 1
    /\ th' = [th EXCEPT ![t].pc = IF impl = "final" THEN "setsockopt" ELSE "ps_recv",
                        ![t].acquired = @ + 1]
    /\ UNCHANGED <<build, now, crashed, conns, cache_lock, cachevars, stats, buffer>>

\* sem_wait(&connection_semaphore)
sem_wait(t) ==
    /\ ~crashed
    /\ th[t].pc = "sem_wait"
    /\ connection_semaphore > 0
    /\ connection_semaphore' = connection_semaphore - 1
    /\ th' = [th EXCEPT ![t].pc = IF impl = "final" THEN "setsockopt" ELSE "ps_recv",
                        ![t].acquired = @ + 1]
    /\ UNCHANGED <<build, now, crashed, conns, cache_lock, cachevars, stats, buffer>>

\* try.c 387-395: setsockopt(SO_RCVTIMEO) on the client socket
handle_client_setsockopt(t) ==
    /\ ~crashed
    /\ th[t].pc = "setsockopt"
    /\ \E ok \in BOOLEAN :
         IF ok
         THEN /\ th' = [th EXCEPT ![t].pc = "recv"]
              /\ UNCHANGED connection_semaphore
         ELSE /\ th' = [th EXCEPT ![t] = Return(@)]
              /\ connection_semaphore' = sem_post(connection_semaphore)
    /\ UNCHANGED <<build, now, crashed, conns, cache_lock, cachevars, stats, buffer>>

\* try.c 397-418: recv, parse_http_request, the Content-Length check
handle_client_recv(t) ==
    /\ ~crashed
    /\ th[t].pc = "recv"
    /\ \/ \* bytes_received <= 0
          /\ th' = [th EXCEPT ![t] = Return(@)]
          /\ connection_semaphore' = sem_post(connection_semaphore)
       \/ \E b \in Requests :
            LET r == parse_http_request(b) IN
            IF r.content_length > max_element_size
            THEN /\ th' = [th EXCEPT ![t] =
                       Return([@ EXCEPT !.status = send_error_response(413),
                                        !.request = b])]
                 /\ connection_semaphore' = sem_post(connection_semaphore)
            ELSE /\ th' = [th EXCEPT ![t].req = r, ![t].key = r.url,
                                     ![t].request = b,
                                     ![t].pc = "cache_lookup",
                                     ![t].stack = <<"looked_up">>]
                 /\ UNCHANGED connection_semaphore
    /\ UNCHANGED <<build, now, crashed, conns, cache_lock, cachevars, stats, buffer>>

\* ---------------------------------------------------------- the cache
\* a cache_element; freed: free(node) was called on it (try.c never unlinks);
\* data_state: "live", "freed" (free(data) was called) or "NULL" (malloc failed)
Node(u, d, n, ts) ==
    [url |-> u, data |-> d, len |-> n, lru_time_track |-> ts,
     freed |-> FALSE, data_state |-> "live"]

Max(S) == CHOOSE x \in S : \A y \in S : y <= x
Min(S) == CHOOSE x \in S : \A y \in S : x <= y
Take(q, n) == SubSeq(q, 1, IF n < Len(q) THEN n ELSE Len(q))

\* the scan of cache_lookup / find_in_cache: the first node from the head
\* whose url compares equal, 0 for NULL
Find(c, u) ==
    LET hit == {i \in 1..Len(c) : c[i].url = u}
    IN  IF hit = {} THEN 0 ELSE Max(hit)

\* the nodes that scan dereferences
Visited(c, u) == {i \in 1..Len(c) : i >= Find(c, u)}

\* Reading or writing freed memory, freeing twice: the process is killed or
\* goes on with the bytes that are still there.  Dead(S) says the nodes S are
\* not all live.
Dead(c, S) == \E i \in S : c[i].freed

\* pthread_mutex_unlock: releases the mutex the caller owns; on one it does
\* not own it returns EPERM (the only build that gets there is the one whose
\* relock returned EDEADLK)
pthread_mutex_unlock(l, t) == IF l = t THEN 0 ELSE l

\* try.c 275-292: cache_lookup, lock, scan, unlock in one step
cache_lookup(t) ==
    /\ ~crashed
    /\ th[t].pc = "cache_lookup"
    /\ \/ cache_lock = 0
       \/ cache_lock = t /\ relock = "EDEADLK"
    /\ \/ /\ cache_lock' = pthread_mutex_unlock(t, t)
          /\ th' = [th EXCEPT ![t].element = Find(cache, th[t].key),
                              ![t].pc = "cache_lookup_count"]
          /\ UNCHANGED crashed
       \/ /\ Dead(cache, Visited(cache, th[t].key))
          /\ crashed' = TRUE
          /\ UNCHANGED <<cache_lock, th>>
    /\ UNCHANGED <<build, now, conns, connection_semaphore, cachevars, stats, buffer>>

\* try.c 283, 290: the counters, after the unlock, and the return
cache_lookup_count(t) ==
    /\ ~crashed
    /\ th[t].pc = "cache_lookup_count"
    /\ IF th[t].element # 0
       THEN total_hits' = total_hits + 1 /\ UNCHANGED total_misses
       ELSE total_misses' = total_misses + 1 /\ UNCHANGED total_hits
    /\ th' = [th EXCEPT ![t].pc = Head(th[t].stack), ![t].stack = Tail(@)]
    /\ UNCHANGED <<build, now, crashed, conns, connection_semaphore, cache_lock,
                   cachevars, buffer>>

\* try.c 422-429: cache hit, send(client_socket, element->data, element->len)
handle_client_hit(t) ==
    /\ ~crashed
    /\ th[t].pc = "looked_up"
    /\ th[t].element # 0
    /\ LET e == cache[th[t].element] IN
       \/ /\ th' = [th EXCEPT ![t] = Return([@ EXCEPT !.sent =
                      IF e.data_state = "NULL" THEN <<>> ELSE Take(e.data, e.len)])]
          /\ connection_semaphore' = sem_post(connection_semaphore)
          /\ UNCHANGED crashed
       \/ /\ e.freed \/ e.data_state = "freed"
          /\ crashed' = TRUE
          /\ UNCHANGED <<th, connection_semaphore>>
    /\ UNCHANGED <<build, now, conns, cache_lock, cachevars, stats, buffer>>

\* try.c 431-439: connect_to_server(config.target_host, config.target_port)
handle_client_connect(t) ==
    /\ ~crashed
    /\ th[t].pc = "looked_up"
    /\ th[t].element = 0
    /\ \E ok \in BOOLEAN :
         IF ok
         THEN /\ th' = [th EXCEPT ![t].pc = "forward", ![t].server_socket = "open"]
              /\ UNCHANGED connection_semaphore
         ELSE /\ th' = [th EXCEPT ![t] =
                    Return([@ EXCEPT !.status = send_error_response(502)])]
              /\ connection_semaphore' = sem_post(connection_semaphore)
    /\ UNCHANGED <<build, now, crashed, conns, cache_lock, cachevars, stats, buffer>>

\* the failure branch of 441-449 without its close(server_socket)
handle_client_forward_leak(t) ==
    /\ ~crashed
    /\ th[t].pc = "forward"
    /\ \E ok \in BOOLEAN :
         IF ok
         THEN /\ th' = [th EXCEPT ![t].pc = "relay", ![t].total_received = 0]
              /\ UNCHANGED connection_semaphore
         ELSE /\ th' = [th EXCEPT ![t] =
                    Return([@ EXCEPT !.status = send_error_response(500)])]
              /\ connection_semaphore' = sem_post(connection_semaphore)
    /\ UNCHANGED <<build, now, crashed, conns, cache_lock, cachevars, stats, buffer>>

\* try.c 441-453: send(server_socket, buffer, bytes_received)
handle_client_forward(t) ==
    /\ ~crashed
    /\ th[t].pc = "forward"
    /\ \E ok \in BOOLEAN :
         IF ok
         THEN /\ th' = [th EXCEPT ![t].pc = "relay", ![t].total_received = 0]
              /\ UNCHANGED connection_semaphore
         ELSE /\ th' = [th EXCEPT ![t] =
                    Return([@ EXCEPT !.status = send_error_response(500),
                                     !.server_socket = "closed"])]
              /\ connection_semaphore' = sem_post(connection_semaphore)
    /\ UNCHANGED <<build, now, crashed, conns, cache_lock, cachevars, stats, buffer>>

\* realloc(full_response, n): the block grows to n units, new units unwritten
Realloc(buf, n) ==
    [state |-> "live",
     bytes |-> [i \in 1..n |-> IF i <= Len(buf.bytes) THEN buf.bytes[i] ELSE 0]]

\* memcpy(full_response + total_received - bytes, response_buffer, bytes)
Memcpy(buf, at, unit) ==
    [buf EXCEPT !.bytes = [i \in 1..Len(@) |-> IF i = at THEN unit ELSE @[i]]]

\* try.c 455-486: one round of the relay loop.  allocated_size and
\* full_response are static: every thread reads and writes the same two.
handle_client_relay(t) ==
    /\ ~crashed
    /\ th[t].pc = "relay"
    /\ LET total == th[t].total_received + MAX_BYTES
           grow == total + MAX_BYTES > allocated_size
           size == IF grow THEN total + MAX_BYTES + MAX_BYTES ELSE allocated_size
           block == IF grow THEN Realloc(full_response, size) ELSE full_response
           relayed == [th EXCEPT ![t].total_received = total,
                                 ![t].sent = Append(@, th[t].conn)]
       IN
       \/ \* break: recv() = 0, the upstream closed ("eof"), or recv() < 0
          \* or send() to the client < 0 ("failed")
          /\ \E how \in {"eof", "failed"} :
                th' = [th EXCEPT ![t].pc = "store", ![t].ended = how]
          /\ UNCHANGED <<buffer, crashed>>
       \/ \* a chunk is relayed and is past the size that is cached
          /\ th[t].total_received < MaxResp
          /\ total > max_element_size
          /\ th' = relayed
          /\ UNCHANGED <<buffer, crashed>>
       \/ \* a chunk is relayed and copied into full_response
          /\ th[t].total_received < MaxResp
          /\ total <= max_element_size
          /\ ~grow => full_response.state # "NULL"
          /\ th' = relayed
          /\ allocated_size' = size
          /\ full_response' = Memcpy(block, total, th[t].conn)
          /\ UNCHANGED crashed
       \/ \* realloc returns NULL: break
          /\ th[t].total_received < MaxResp
          /\ total <= max_element_size
          /\ grow
          /\ th' = [relayed EXCEPT ![t].pc = "store"]
          /\ allocated_size' = size
          /\ full_response' = [state |-> "NULL", bytes |-> <<>>]
          /\ UNCHANGED crashed
       \/ \* the block was freed by an earlier free(full_response), or is NULL
          /\ th[t].total_received < MaxResp
          /\ total <= max_element_size
          /\ \/ full_response.state = "freed"
             \/ ~grow /\ full_response.state = "NULL"
          /\ crashed' = TRUE
          /\ UNCHANGED <<buffer, th>>
    /\ UNCHANGED <<build, now, conns, connection_semaphore, cache_lock, cachevars, stats>>

\* the test of 489 without total_received <= config.max_element_size
handle_client_store_unbounded(t) ==
    /\ ~crashed
    /\ th[t].pc = "store"
    /\ IF /\ th[t].total_received > 0
          /\ full_response.state # "NULL"
       THEN /\ th' = [th EXCEPT ![t].pc = "cache_add", ![t].stack = <<"free">>,
                                ![t].arg = [url |-> th[t].req.url,
                                            len |-> th[t].total_received,
                                            src |-> "full_response"]]
            /\ UNCHANGED connection_semaphore
       ELSE /\ th' = [th EXCEPT ![t] = Return([@ EXCEPT !.server_socket = "closed"])]
            /\ connection_semaphore' = sem_post(connection_semaphore)
    /\ UNCHANGED <<build, now, crashed, conns, cache_lock, cachevars, stats, buffer>>

\* try.c 488-497: the response is handed to cache_add, or the handler
\* closes both sockets, posts and returns
handle_client_store(t) ==
    /\ ~crashed
    /\ th[t].pc = "store"
    /\ IF /\ th[t].total_received > 0
          /\ th[t].total_received <= max_element_size
          /\ full_response.state # "NULL"
       THEN /\ th' = [th EXCEPT ![t].pc = "cache_add", ![t].stack = <<"free">>,
                                ![t].arg = [url |-> th[t].req.url,
                                            len |-> th[t].total_received,
                                            src |-> "full_response"]]
            /\ UNCHANGED connection_semaphore
       ELSE /\ th' = [th EXCEPT ![t] = Return([@ EXCEPT !.server_socket = "closed"])]
            /\ connection_semaphore' = sem_post(connection_semaphore)
    /\ UNCHANGED <<build, now, crashed, conns, cache_lock, cachevars, stats, buffer>>

\* try.c 491-497: free(full_response), the static pointer keeps its value;
\* close(server_socket); close(client_socket); sem_post; return
handle_client_free(t) ==
    /\ ~crashed
    /\ th[t].pc = "free"
    /\ \/ /\ th' = [th EXCEPT ![t] = Return([@ EXCEPT !.server_socket = "closed"])]
          /\ connection_semaphore' = sem_post(connection_semaphore)
          /\ full_response' = IF full_response.state = "NULL" THEN full_response
                              ELSE [full_response EXCEPT !.state = "freed"]
          /\ UNCHANGED crashed
       \/ /\ full_response.state = "freed"
          /\ crashed' = TRUE
          /\ UNCHANGED <<th, full_response, connection_semaphore>>
    /\ UNCHANGED <<build, now, conns, cache_lock, cachevars, stats, allocated_size>>

\* the bytes cache_add's memcpy reads through its data pointer: the static
\* buffer when handle_client calls, the caller's own array otherwise
Source(t) ==
    IF th[t].arg.src = "full_response" THEN full_response.bytes
    ELSE [i \in 1..th[t].arg.len |-> th[t].conn]

SourceDead(t) == th[t].arg.src = "full_response" /\ full_response.state # "live"
SourceNull(t) == th[t].arg.src = "full_response" /\ full_response.state = "NULL"

\* pop the return label
Ret(r) == [r EXCEPT !.pc = Head(r.stack), !.stack = Tail(r.stack),
                    !.arg = NoArg, !.element = 0, !.key = 0]

\* try.c 294-299: cache_add locks cache_lock and calls cache_lookup, which
\* locks it again
cache_add(t) ==
    /\ ~crashed
    /\ th[t].pc = "cache_add"
    /\ cache_lock = 0
    /\ cache_lock' = t
    /\ th' = [th EXCEPT ![t].pc = "cache_lookup", ![t].key = th[t].arg.url,
                        ![t].stack = <<"cache_add_found">> \o @]
    /\ UNCHANGED <<build, now, crashed, conns, connection_semaphore, cachevars,
                   stats, buffer>>

\* try.c 301: free(element->data)
cache_add_free(t) ==
    /\ ~crashed
    /\ th[t].pc = "cache_add_found"
    /\ th[t].element # 0
    /\ LET e == th[t].element IN
       \/ /\ cache' = [cache EXCEPT ![e].data_state =
                         IF @ = "NULL" THEN "NULL" ELSE "freed"]
          /\ th' = [th EXCEPT ![t].pc = "cache_add_update"]
          /\ UNCHANGED crashed
       \/ /\ cache[e].freed \/ cache[e].data_state = "freed"
          /\ crashed' = TRUE
          /\ UNCHANGED <<cache, th>>
    /\ UNCHANGED <<build, now, conns, connection_semaphore, cache_lock,
                   current_size, total_cache_size, stats, buffer>>

\* try.c 302-311: malloc, memcpy, len, lru_time_track, unlock, return
cache_add_update(t) ==
    /\ ~crashed
    /\ th[t].pc = "cache_add_update"
    /\ LET e == th[t].element IN
       \/ \* malloc returned NULL
          /\ cache' = [cache EXCEPT ![e].data_state = "NULL"]
          /\ cache_lock' = pthread_mutex_unlock(cache_lock, t)
          /\ th' = [th EXCEPT ![t] = Ret(@)]
          /\ UNCHANGED <<now, crashed>>
       \/ /\ ~SourceNull(t)
          /\ \E ts \in time(now) :
               /\ now' = ts
               /\ cache' = [cache EXCEPT ![e].data = Take(Source(t), th[t].arg.len),
                                         ![e].data_state = "live",
                                         ![e].len = th[t].arg.len,
                                         ![e].lru_time_track = ts]
          /\ cache_lock' = pthread_mutex_unlock(cache_lock, t)
          /\ th' = [th EXCEPT ![t] = Ret(@)]
          /\ UNCHANGED crashed
       \/ /\ cache[e].freed \/ SourceDead(t)
          /\ crashed' = TRUE
          /\ UNCHANGED <<now, cache, cache_lock, th>>
    /\ UNCHANGED <<build, conns, connection_semaphore, current_size,
                   total_cache_size, stats, buffer>>

\* try.c 314-336: a new element goes to the head, current_size += len
cache_add_insert(t) ==
    /\ ~crashed
    /\ th[t].pc = "cache_add_found"
    /\ th[t].element = 0
    /\ \/ \* malloc returned NULL for the element or for its data
          /\ cache_lock' = pthread_mutex_unlock(cache_lock, t)
          /\ th' = [th EXCEPT ![t] = Ret(@)]
          /\ UNCHANGED <<now, crashed, cachevars>>
       \/ /\ ~SourceNull(t)
          /\ \E ts \in time(now) :
               /\ now' = ts
               /\ cache' = Append(cache, Node(th[t].arg.url,
                                              Take(Source(t), th[t].arg.len),
                                              th[t].arg.len, ts))
          /\ current_size' = current_size + th[t].arg.len
          /\ th' = [th EXCEPT ![t].pc = "cache_add_evict"]
          /\ UNCHANGED <<cache_lock, crashed, total_cache_size>>
       \/ /\ SourceDead(t)
          /\ crashed' = TRUE
          /\ UNCHANGED <<now, cachevars, cache_lock, th>>
    /\ UNCHANGED <<build, conns, connection_semaphore, stats, buffer>>

\* try.c 340-350: the element the eviction scan ends with: the first one
\* from the head with the smallest lru_time_track below oldest_time, 0 for NULL
to_evict(c, oldest_time) ==
    LET old == {i \in 1..Len(c) : c[i].lru_time_track < oldest_time}
        least == Min({c[i].lru_time_track : i \in old})
    IN  IF old = {} THEN 0
        ELSE Max({i \in old : c[i].lru_time_track = least})

\* try.c 338-360: one round of while (current_size > max_cache_size), or
\* the unlock and return after it.  The evicted element stays in the list.
cache_add_evict(t) ==
    /\ ~crashed
    /\ th[t].pc = "cache_add_evict"
    /\ IF current_size <= max_cache_size
       THEN /\ cache_lock' = pthread_mutex_unlock(cache_lock, t)
            /\ th' = [th EXCEPT ![t] = Ret(@)]
            /\ UNCHANGED <<now, crashed, cachevars>>
       ELSE \/ \E ts \in time(now) :
                 LET e == to_evict(cache, ts) IN
                 /\ now' = ts
                 /\ IF e = 0 THEN UNCHANGED cachevars
                    ELSE /\ current_size' = current_size - cache[e].len
                         /\ cache' = [cache EXCEPT ![e].freed = TRUE,
                                                   ![e].data_state = "freed"]
                 /\ UNCHANGED <<cache_lock, th, crashed, total_cache_size>>
            \/ /\ Dead(cache, 1..Len(cache))
               /\ crashed' = TRUE
               /\ UNCHANGED <<now, cachevars, cache_lock, th>>
    /\ UNCHANGED <<build, conns, connection_semaphore, stats, buffer>>

\* ------------------------------------------------------ proxy_server.c
\* send_error_response of proxy_server.c: the status code it writes
ps_send_error_response(status_code) ==
    IF status_code \in {400, 403, 404, 500, 502} THEN status_code ELSE 500

\* strlen(url): the key is the request buffer, one unit long
strlen(u) == MAX_BYTES

\* proxy_server.c 322, 351: what one element adds to total_cache_size
Accounted(e) == e.len + sizeof_cache_element + strlen(e.url) + 1

Remove(c, i) == SubSeq(c, 1, i - 1) \o SubSeq(c, i + 1, Len(c))

\* proxy_server.c 331-342: the element remove_from_cache ends with: the
\* first one from the head with the smallest lru_time_track
oldest(c) ==
    LET least == Min({c[i].lru_time_track : i \in 1..Len(c)})
    IN  Max({i \in 1..Len(c) : c[i].lru_time_track = least})

\* proxy_server.c 326-355: remove_from_cache on the list and the total
remove_from_cache(s) ==
    IF s.cache = <<>> THEN s
    ELSE [cache |-> Remove(s.cache, oldest(s.cache)),
          total |-> s.total - Accounted(s.cache[oldest(s.cache)])]

\* proxy_server.c 309-311: while (total_cache_size + size > MAX_CACHE_SIZE)
RECURSIVE make_room(_, _)
make_room(s, size) ==
    IF s.total + size > MAX_CACHE_SIZE /\ s.cache # <<>>
    THEN make_room(remove_from_cache(s), size)
    ELSE s

\* proxy_server.c 304-324: add_to_cache(data, size, url) at time ts
add_to_cache(s, data, size, url, ts) ==
    IF size > max_element_size THEN s
    ELSE LET r == make_room(s, size)
             e == Node(url, data, size, ts)
         IN  [cache |-> Append(r.cache, e), total |-> r.total + Accounted(e)]

\* the loop of 309-311 never ends: the list is empty and the sum is too big
add_to_cache_spins(s, size) ==
    /\ size <= max_element_size
    /\ LET r == make_room(s, size) IN r.total + size > MAX_CACHE_SIZE

\* proxy_server.c 232-241: recv
ps_handle_client_recv(t) ==
    /\ ~crashed
    /\ th[t].pc = "ps_recv"
    /\ \/ \* bytes_received <= 0
          /\ th' = [th EXCEPT ![t] = Return(@)]
          /\ connection_semaphore' = sem_post(connection_semaphore)
       \/ \E b \in Requests :
            /\ th' = [th EXCEPT ![t].key = b, ![t].request = b,
                                ![t].pc = "ps_lookup"]
            /\ UNCHANGED connection_semaphore
    /\ UNCHANGED <<build, now, crashed, conns, cache_lock, cachevars, stats, buffer>>

\* proxy_server.c 243-251, 286-288: lock, find_in_cache(buffer), on a hit
\* send the data, unlock, close, sem_post; on a miss unlock
ps_handle_client_lookup(t) ==
    /\ ~crashed
    /\ th[t].pc = "ps_lookup"
    /\ cache_lock = 0
    /\ LET cached == Find(cache, th[t].key) IN
       IF cached # 0
       THEN \E ts \in time(now) :
              /\ now' = ts
              /\ cache' = [cache EXCEPT ![cached].lru_time_track = ts]
              /\ th' = [th EXCEPT ![t] = Return([@ EXCEPT !.sent =
                           Take(cache[cached].data, cache[cached].len)])]
              /\ connection_semaphore' = sem_post(connection_semaphore)
       ELSE /\ th' = [th EXCEPT ![t].pc = "ps_connect"]
            /\ UNCHANGED <<now, cache, connection_semaphore>>
    /\ UNCHANGED <<build, crashed, conns, cache_lock, current_size,
                   total_cache_size, stats, buffer>>

\* proxy_server.c 253-275: the Host header, connect_to_server, the request
\* is sent, one recv of the response, which is sent to the client
ps_handle_client_connect(t) ==
    /\ ~crashed
    /\ th[t].pc = "ps_connect"
    /\ \/ \* strstr(buffer, "Host: ") is NULL: NULL + 6 is dereferenced
          /\ th[t].key.dirt = "nohost"
          /\ crashed' = TRUE
          /\ UNCHANGED <<th, connection_semaphore>>
       \/ \* connect_to_server < 0
          /\ th[t].key.dirt # "nohost"
          /\ th' = [th EXCEPT ![t] =
                Return([@ EXCEPT !.status = ps_send_error_response(502)])]
          /\ connection_semaphore' = sem_post(connection_semaphore)
          /\ UNCHANGED crashed
       \/ \* connected, bytes_received <= 0
          /\ th[t].key.dirt # "nohost"
          /\ th' = [th EXCEPT ![t] = Return([@ EXCEPT !.server_socket = "closed"])]
          /\ connection_semaphore' = sem_post(connection_semaphore)
          /\ UNCHANGED crashed
       \/ \* connected, one unit received and sent to the client
          /\ th[t].key.dirt # "nohost"
          /\ th' = [th EXCEPT ![t].pc = "ps_store", ![t].server_socket = "open",
                              ![t].total_received = MAX_BYTES,
                              ![t].sent = <<th[t].conn>>]
          /\ UNCHANGED <<connection_semaphore, crashed>>
    /\ UNCHANGED <<build, now, conns, cache_lock, cachevars, stats, buffer>>

\* proxy_server.c 277-288: lock, add_to_cache(response, bytes_received,
\* buffer), unlock, close both sockets, sem_post
ps_handle_client_store(t) ==
    /\ ~crashed
    /\ th[t].pc = "ps_store"
    /\ cache_lock = 0
    /\ LET s == [cache |-> cache, total |-> total_cache_size]
           size == th[t].total_received
       IN
       IF add_to_cache_spins(s, size)
       THEN /\ cache_lock' = t
            /\ th' = [th EXCEPT ![t].pc = "ps_spin"]
            /\ UNCHANGED <<now, cache, total_cache_size, connection_semaphore>>
       ELSE \E ts \in time(now) :
              LET r == add_to_cache(s, [i \in 1..size |-> th[t].conn], size,
                                    th[t].key, ts) IN
              /\ now' = ts
              /\ cache' = r.cache
              /\ total_cache_size' = r.total
              /\ th' = [th EXCEPT ![t] = Return([@ EXCEPT !.server_socket = "closed"])]
              /\ connection_semaphore' = sem_post(connection_semaphore)
              /\ UNCHANGED cache_lock
    /\ UNCHANGED <<build, crashed, conns, current_size, stats, buffer>>

\* ------------------------------------------- the cache driven directly
\* A caller outside handle_client calls the cache operations one after the
\* other, with any key and any payload length, the lengths past
\* max_element_size included; conns counts the calls and numbers the payloads.
Idle(t) ==
    /\ \A u \in Threads : th[u].pc \in {"none", "returned"}
    /\ \A u \in Threads : u < t => th[u].pc = "returned"

\* cache_add(url, data, len) of try.c is called
call_cache_add(t) ==
    /\ ~crashed
    /\ impl = "final"
    /\ Idle(t)
    /\ conns < MaxCalls
    /\ conns' = conns + 1
    /\ \E u \in Urls, n \in 1..(max_element_size + 1) :
         th' = [th EXCEPT ![t] = [NoThread EXCEPT
                   !.pc = "cache_add", !.stack = <<"returned">>,
                   !.conn = conns + 1,
                   !.arg = [url |-> u, len |-> n, src |-> "own"]]]
    /\ UNCHANGED <<build, now, crashed, connection_semaphore, cache_lock,
                   cachevars, stats, buffer>>

\* cache_lookup(url, &element) of try.c is called
call_cache_lookup(t) ==
    /\ ~crashed
    /\ impl = "final"
    /\ Idle(t)
    /\ conns < MaxCalls
    /\ conns' = conns + 1
    /\ \E u \in Urls :
         th' = [th EXCEPT ![t] = [NoThread EXCEPT
                   !.pc = "cache_lookup", !.stack = <<"returned">>,
                   !.conn = conns + 1, !.key = u]]
    /\ UNCHANGED <<build, now, crashed, connection_semaphore, cache_lock,
                   cachevars, stats, buffer>>

\* proxy_server.c: lock; add_to_cache(data, size, url); unlock, as its
\* caller at 278-280 brackets it
call_add_to_cache(t) ==
    /\ ~crashed
    /\ impl = "v1"
    /\ Idle(t)
    /\ conns < MaxCalls
    /\ cache_lock = 0
    /\ conns' = conns + 1
    /\ \E u \in Urls, n \in 1..(max_element_size + 1), ts \in time(now) :
         LET s == [cache |-> cache, total |-> total_cache_size]
             r == add_to_cache(s, [i \in 1..n |-> conns + 1], n, u, ts)
         IN  /\ ~add_to_cache_spins(s, n)
             /\ now' = ts
             /\ cache' = r.cache
             /\ total_cache_size' = r.total
             /\ th' = [th EXCEPT ![t] = [NoThread EXCEPT
                       !.pc = "returned", !.conn = conns + 1,
                       !.arg = [url |-> u, len |-> n, src |-> "own"]]]
    /\ UNCHANGED <<build, crashed, connection_semaphore, cache_lock,
                   current_size, stats, buffer>>

\* proxy_server.c: lock; find_in_cache(url); unlock, as at 244-251
call_find_in_cache(t) ==
    /\ ~crashed
    /\ impl = "v1"
    /\ Idle(t)
    /\ conns < MaxCalls
    /\ cache_lock = 0
    /\ conns' = conns + 1
    /\ \E u \in Urls, ts \in time(now) :
         LET cached == Find(cache, u) IN
         /\ now' = IF cached # 0 THEN ts ELSE now
         /\ cache' = IF cached # 0
                     THEN [cache EXCEPT ![cached].lru_time_track = ts]
                     ELSE cache
         /\ th' = [th EXCEPT ![t] = [NoThread EXCEPT
                   !.pc = "returned", !.conn = conns + 1, !.key = u,
                   !.element = cached]]
    /\ UNCHANGED <<build, crashed, connection_semaphore, cache_lock,
                   current_size, total_cache_size, stats, buffer>>

CacheNext ==
    \/ \E t \in Threads : call_cache_add(t)
    \/ \E t \in Threads : call_cache_lookup(t)
    \/ \E t \in Threads : call_add_to_cache(t)
    \/ \E t \in Threads : call_find_in_cache(t)
    \/ \E t \in Threads : cache_lookup(t)
    \/ \E t \in Threads : cache_lookup_count(t)
    \/ \E t \in Threads : cache_add(t)
    \/ \E t \in Threads : cache_add_free(t)
    \/ \E t \in Threads : cache_add_update(t)
    \/ \E t \in Threads : cache_add_insert(t)
    \/ \E t \in Threads : cache_add_evict(t)

InitCache == Init /\ max_clients = MaxClients

\* the cache under any sequence of calls
SpecCache == InitCache /\ [][CacheNext]_vars

Next ==
    \/ \E t \in Threads : main_accept(t)
    \/ \E t \in Threads : sem_wait(t)
    \/ \E t \in Threads : handle_client_setsockopt(t)
    \/ \E t \in Threads : handle_client_recv(t)
    \/ \E t \in Threads : cache_lookup(t)
    \/ \E t \in Threads : cache_lookup_count(t)
    \/ \E t \in Threads : handle_client_hit(t)
    \/ \E t \in Threads : handle_client_connect(t)
    \/ \E t \in Threads : handle_client_forward(t)
    \/ \E t \in Threads : handle_client_relay(t)
    \/ \E t \in Threads : handle_client_store(t)
    \/ \E t \in Threads : handle_client_free(t)
    \/ \E t \in Threads : cache_add(t)
    \/ \E t \in Threads : cache_add_free(t)
    \/ \E t \in Threads : cache_add_update(t)
    \/ \E t \in Threads : cache_add_insert(t)
    \/ \E t \in Threads : cache_add_evict(t)
    \/ \E t \in Threads : ps_handle_client_recv(t)
    \/ \E t \in Threads : ps_handle_client_lookup(t)
    \/ \E t \in Threads : ps_handle_client_connect(t)
    \/ \E t \in Threads : ps_handle_client_store(t)

Spec == Init /\ [][Next]_vars

\* ------------------------------------------------- staggered arrivals
\* connections the accept loop takes when the clients arrive one at a time
MaxStaggered == 3

\* main's accept when the clients arrive one at a time: every earlier
\* handler has returned, or has its cache hit in hand and is about to send
\* it (try.c 422-425, the lock is released at 282)
main_accept_staggered(t) ==
    /\ ~crashed
    /\ conns < MaxStaggered
    /\ \A u \in Threads :
          \/ th[u].pc \in {"none", "done"}
          \/ th[u].pc = "looked_up" /\ th[u].element # 0
    /\ th[t].pc \in {"none", "done"}
    /\ \A u \in Threads : u < t => th[u].pc \notin {"none", "done"}
    /\ conns' = conns + 1
    /\ th' = [th EXCEPT ![t] = [NoThread EXCEPT !.pc = "sem_wait",
                                                 !.conn = conns + 1]]
    /\ UNCHANGED <<build, now, crashed, connection_semaphore, cache_lock,
                   cachevars, stats, buffer>>

\* the steps that can follow such arrivals: no handler finds in cache_add
\* a key that its own lookup missed
StaggeredNext ==
    \/ \E t \in Threads : main_accept_staggered(t)
    \/ \E t \in Threads : sem_wait(t)
    \/ \E t \in Threads : handle_client_setsockopt(t)
    \/ \E t \in Threads : handle_client_recv(t)
    \/ \E t \in Threads : cache_lookup(t)
    \/ \E t \in Threads : cache_lookup_count(t)
    \/ \E t \in Threads : handle_client_hit(t)
    \/ \E t \in Threads : handle_client_connect(t)
    \/ \E t \in Threads : handle_client_forward(t)
    \/ \E t \in Threads : handle_client_relay(t)
    \/ \E t \in Threads : handle_client_store(t)
    \/ \E t \in Threads : handle_client_free(t)
    \/ \E t \in Threads : cache_add(t)
    \/ \E t \in Threads : cache_add_insert(t)
    \/ \E t \in Threads : cache_add_evict(t)
    \/ \E t \in Threads : ps_handle_client_recv(t)
    \/ \E t \in Threads : ps_handle_client_lookup(t)
    \/ \E t \in Threads : ps_handle_client_connect(t)
    \/ \E t \in Threads : ps_handle_client_store(t)

\* the whole program, clients arriving one at a time
StaggeredSpec == Init /\ [][StaggeredNext]_vars

\* ---------------------------------------------------------- scheduling
\* every step a worker thread can take, main's accept left out
handle_client(t) ==
    \/ sem_wait(t)
    \/ handle_client_setsockopt(t)
    \/ handle_client_recv(t)
    \/ cache_lookup(t)
    \/ cache_lookup_count(t)
    \/ handle_client_hit(t)
    \/ handle_client_connect(t)
    \/ handle_client_forward(t)
    \/ handle_client_relay(t)
    \/ handle_client_store(t)
    \/ handle_client_free(t)
    \/ cache_add(t)
    \/ cache_add_free(t)
    \/ cache_add_update(t)
    \/ cache_add_insert(t)
    \/ cache_add_evict(t)
    \/ ps_handle_client_recv(t)
    \/ ps_handle_client_lookup(t)
    \/ ps_handle_client_connect(t)
    \/ ps_handle_client_store(t)

\* a detached pthread that can run is run
Fairness == \A t \in Threads : WF_vars(handle_client(t))

FairSpec == Init /\ [][Next]_vars /\ Fairness

\* ------------------------------------------------------------ properties
\* the workers that passed sem_wait and did not yet sem_post
Admitted == {t \in Threads : th[t].acquired > th[t].posts}

\* C1: at any moment the number of workers that have passed sem_wait and
\* have not yet executed sem_post is at most max_clients
C1_AdmissionBound == Cardinality(Admitted) <= max_clients

\* max_clients workers are admitted and one more waits on the semaphore
C1_Witness ==
    /\ Cardinality(Admitted) = max_clients
    /\ connection_semaphore = 0
    /\ \E t \in Threads : th[t].pc = "sem_wait"

\* C2: the permit a handler acquired is released exactly once on every path
\* out of it: the permits held and the permits free add up to max_clients,
\* a handler that returned has posted once, the count never exceeds
\* max_clients and is max_clients again once every handler has returned
C2_NoPermitLeak ==
    /\ connection_semaphore + Cardinality(Admitted) = max_clients
    /\ connection_semaphore <= max_clients
    /\ \A t \in Threads :
         /\ th[t].posts <= th[t].acquired
         /\ th[t].pc = "done" => th[t].acquired = 1 /\ th[t].posts = 1
    /\ (\A t \in Threads : th[t].pc \in {"none", "done"})
          => connection_semaphore = max_clients

\* every accepted connection was handled by try.c, one of them through the
\* cache insert (the relock returned EDEADLK)
C2_Witness ==
    /\ impl = "final"
    /\ conns = MaxConns
    /\ \A t \in Threads : th[t].pc \in {"none", "done"}
    /\ \E t \in Threads : th[t].pc = "done" /\ th[t].sent # <<>>
    /\ cache # <<>>
    /\ connection_semaphore = max_clients

\* C3: every worker that acquired a permit eventually closes and returns,
\* the workers that go through the cache insert included.  The death of the
\* process and the run of the clock to its last value end the obligation.
C3_EventuallyClosed ==
    \A t \in Threads :
        (t \in Admitted) ~> (th[t].pc = "done" \/ crashed \/ now = MaxTime)

\* C4: a handler that returned closed its client socket exactly once and
\* left no upstream socket open; a handler still running has not closed yet
C4_SocketsClosed ==
    \A t \in Threads :
        /\ th[t].client_closed <= 1
        /\ th[t].pc = "done" =>
              th[t].client_closed = 1 /\ th[t].server_socket # "open"
        /\ t \in Admitted => th[t].client_closed = 0

\* a handler returned after its send to the upstream failed
C4_Witness ==
    \E t \in Threads :
        /\ th[t].pc = "done"
        /\ th[t].server_socket = "closed"
        /\ th[t].status = 500
        /\ th[t].client_closed = 1

\* ------------------------------------------------------ cache properties
\* the elements of the list that were not evicted: try.c frees an evicted
\* element and leaves it in the list
Live(c) == {i \in 1..Len(c) : ~c[i].freed}

\* the worker is between the lock of cache_add / add_to_cache and its unlock
InCacheAdd(t) ==
    \/ th[t].pc \in {"cache_add_found", "cache_add_update", "cache_add_evict",
                     "ps_spin"}
    \/ \E i \in 1..Len(th[t].stack) : th[t].stack[i] = "cache_add_found"

Quiescent == \A t \in Threads : ~InCacheAdd(t)

\* the size the program accounts and the budget it compares it with
AccountedSize == IF impl = "final" THEN current_size ELSE total_cache_size
Budget == IF impl = "final" THEN max_cache_size ELSE MAX_CACHE_SIZE

\* what the program charges one element
Charge(e) == IF impl = "final" THEN e.len ELSE Accounted(e)

RECURSIVE SumCharges(_, _)
SumCharges(c, S) ==
    IF S = {} THEN 0
    ELSE LET i == CHOOSE x \in S : TRUE
         IN  Charge(c[i]) + SumCharges(c, S \ {i})

\* C5: whenever no worker is inside the cache's critical section the
\* accounted size of the cache is at most the configured maximum
C5_SizeBound == Quiescent => AccountedSize <= Budget

\* C6: whenever no worker is inside the cache's critical section the
\* accounted size equals the sum of the accounted sizes of the entries
\* that are in the cache
C6_SizeIsSum == Quiescent => AccountedSize = SumCharges(cache, Live(cache))

\* C7: an insert whose payload is longer than max_element_size changes
\* nothing in the cache, and no entry of the cache is ever longer than that
C7_OversizeRejected ==
    [][/\ \A t \in Threads :
            \/ th[t].pc \notin {"none", "returned"} /\ th[t].arg.len > max_element_size
            \/ th'[t].conn = conns + 1 /\ th'[t].arg.len > max_element_size
            => UNCHANGED cachevars
       /\ \A i \in Live(cache') : cache'[i].len <= max_element_size]_vars

\* the inserts so far were of distinct keys, none longer than max_element_size
DistinctKeys(c) ==
    \A i, j \in Live(c) : i # j => c[i].url # c[j].url
NoneOversize(c) == \A i \in 1..Len(c) : c[i].len <= max_element_size

\* the elements of c that are gone from d (the payload names the insert)
Gone(c, d) ==
    {i \in 1..Len(c) : \A j \in 1..Len(d) : d[j].data # c[i].data}

\* C8: after inserts of distinct keys, none oversized, every reduction of
\* the accounted size is the eviction of an entry that is in the cache, and
\* no entry is evicted while one with a smaller lastAccess remains
C8_EvictsOldest ==
    [][(DistinctKeys(cache') /\ NoneOversize(cache')) =>
         /\ (impl = "final" /\ current_size' < current_size) =>
               \E e \in Live(cache) :
                  /\ cache'[e].freed
                  /\ \A j \in Live(cache) :
                        cache[e].lru_time_track <= cache[j].lru_time_track
         /\ impl = "v1" =>
               \A e \in Gone(cache, cache') :
                  \A j \in (1..Len(cache)) \ Gone(cache, cache') :
                     cache[e].lru_time_track <= cache[j].lru_time_track]_vars

\* C9: an insert of a key the cache holds replaces that entry's payload,
\* sets its lastAccess to the current time and leaves the number of entries
\* as it was
C9_UpdateInPlace ==
    [][\A t \in Threads :
         /\ ( /\ th[t].pc = "cache_add_update"
              /\ th'[t].pc # "cache_add_update"
              /\ th[t].element \in Live(cache) ) =>
                 LET e == th[t].element IN
                 /\ Len(cache') = Len(cache)
                 /\ cache'[e].data_state = "live"
                 /\ cache'[e].len = th[t].arg.len
                 /\ cache'[e].data = Take(Source(t), th[t].arg.len)
                 /\ cache'[e].lru_time_track = now'
         /\ ( /\ impl = "v1"
              /\ conns' = conns + 1 /\ th'[t].conn = conns'
              /\ th'[t].arg.len \in 1..max_element_size
              /\ Find(cache, th'[t].arg.url) # 0 ) =>
                 LET e == Find(cache', th'[t].arg.url) IN
                 /\ Len(cache') = Len(cache)
                 /\ cache'[e].len = th'[t].arg.len
                 /\ cache'[e].data = [i \in 1..th'[t].arg.len |-> th'[t].conn]
                 /\ cache'[e].lru_time_track = now']_vars

\* C10: no two entries of the cache have the same key, also after two
\* workers missed on the same target at the same time
C10_KeyUnique == DistinctKeys(cache)

\* ------------------------------------------------- request properties
\* the step in which worker t's cache_add / add_to_cache stores a payload,
\* and the element that holds it afterwards
Stores(t) ==
    \/ th[t].pc = "cache_add_found" /\ th'[t].pc = "cache_add_evict"
    \/ /\ th[t].pc = "cache_add_update" /\ th'[t].pc # "cache_add_update"
       /\ cache'[th[t].element].data_state = "live"
    \/ th[t].pc = "ps_store" /\ th'[t].pc = "done" /\ cache' # cache

Stored(t) ==
    IF th[t].pc = "cache_add_update" THEN th[t].element ELSE Len(cache')

\* the step in which worker t answers from the cache, and the element it
\* answers from
Hits(t) ==
    \/ th[t].pc = "looked_up" /\ th[t].element # 0 /\ th'[t].pc = "done"
    \/ th[t].pc = "ps_lookup" /\ Find(cache, th[t].key) # 0 /\ th'[t].pc = "done"

HitElement(t) ==
    IF th[t].pc = "looked_up" THEN th[t].element ELSE Find(cache, th[t].key)

\* the element is in the cache with a payload that was written whole
Whole(e) == ~e.freed /\ e.data_state = "live" /\ Len(e.data) = e.len

\* C11: round trip.  The payload a handler's insert stores is the response
\* that was relayed for its request, byte for byte, and a hit on an entry
\* that was not evicted or replaced sends that payload, byte for byte
C11_RoundTrip ==
    [][\A t \in Threads :
         /\ (Stores(t) /\ th[t].request # NoRequest) =>
               cache'[Stored(t)].data = th[t].sent
         /\ (Hits(t) /\ Whole(cache[HitElement(t)])) =>
               th'[t].sent = cache[HitElement(t)].data]_vars

\* the handler's lookup returned an entry that it has not sent yet
Held(t) == th[t].pc = "looked_up" /\ th[t].element # 0

\* C12: a lookup that races with an insertion (new entry, replacement,
\* eviction) sees the cache before or after it: the entry a handler got
\* from a hit stays one whole payload until the handler has sent it, and
\* what it sends is that payload.
C12_HitIsWhole ==
    [][\A t \in Threads :
         (Held(t) /\ Whole(cache[th[t].element])) =>
            /\ Hits(t) => th'[t].sent = cache[th[t].element].data
            /\ ~Hits(t) => Whole(cache'[th[t].element])]_vars

\* handle_client of try.c has received the request b of thread t and run
\* parse_http_request on it
Parsed(t) == impl = "final" /\ th[t].request # NoRequest

\* the handler answered with status code and did nothing else for the
\* request: no cached payload sent, no upstream socket, socket closed
Rejected(t, code) ==
    /\ th[t].pc = "done"
    /\ th[t].status = code
    /\ th[t].sent = <<>>
    /\ th[t].server_socket = "none"
    /\ th[t].client_closed = 1

\* C13: a request whose method is not GET is answered 405 and closed; no
\* cache hit response, no upstream connection and no forwarding happen
\* for it.
C13_MethodRejected ==
    \A t \in Threads :
        (Parsed(t) /\ th[t].request.dirt = "none"
                   /\ th[t].request.method # "GET") => Rejected(t, 405)

\* C14: a request whose Content-Length exceeds max_element_size is
\* answered with status 413 and no upstream connection is attempted.
C14_OversizeRequest ==
    \A t \in Threads :
        (Parsed(t) /\ th[t].request.dirt = "none"
                   /\ th[t].request.clen > max_element_size) =>
            /\ th[t].pc = "done"
            /\ th[t].status = 413
            /\ th[t].server_socket = "none"

\* the handler is in, or past, a cache lookup, an upstream connect or a
\* cache insert for its request
Proceeded(t) ==
    \/ th[t].pc \notin {"none", "sem_wait", "setsockopt", "recv", "done"}
    \/ th[t].server_socket # "none"
    \/ th[t].sent # <<>>

\* C16: a request with a forbidden header (X-Forwarded-For,
\* Proxy-Connection, X-Proxy) is rejected before any cache lookup, any
\* upstream connect and any cache insert.
C16_ForbiddenHeader ==
    \A t \in Threads :
        (Parsed(t) /\ th[t].request.dirt = "header") => ~Proceeded(t)

\* the requests on which parse_http_request fails at the request line
\* or at Content-Length
Malformed == {"nospace", "notarget", "colon", "dslash", "badlen"}

\* C18: a request that fails in the parser (no space after the method,
\* missing or oversize target, colon or double slash in the target,
\* unparseable Content-Length) is answered 400, with no cache lookup, no
\* upstream connection and no cache insert.
C18_ParseFailure ==
    \A t \in Threads :
        (Parsed(t) /\ th[t].request.dirt \in Malformed) =>
            /\ ~Proceeded(t)
            /\ th[t].pc = "done" => th[t].status = 400

\* the step in which connect_to_server fails after a miss and the handler
\* returns (try.c 432-439, proxy_server.c 260-266)
ConnectFails(t) ==
    \/ /\ th[t].pc = "looked_up" /\ th[t].element = 0
       /\ th'[t].pc = "done"
    \/ /\ th[t].pc = "ps_connect"
       /\ th'[t].pc = "done" /\ th'[t].server_socket = "none"

\* C15: on a miss, when the upstream connection cannot be established,
\* the client gets a 502, its socket is closed, the permit is released
\* and nothing is inserted into the cache.
C15_UpstreamFailure ==
    [][\A t \in Threads :
         ConnectFails(t) =>
            /\ th'[t].status = 502
            /\ th'[t].sent = <<>>
            /\ th'[t].client_closed = 1
            /\ th'[t].posts = 1
            /\ connection_semaphore' = connection_semaphore + 1
            /\ cachevars' = cachevars]_vars

\* a handler missed, failed to connect and returned with the 502
C15_Witness ==
    \E t \in Threads :
        /\ th[t].pc = "done"
        /\ th[t].request # NoRequest
        /\ th[t].status = 502
        /\ th[t].server_socket = "none"
        /\ th[t].posts = 1

\* the handler's own cache_lookup (try.c 422) returns an entry
Found(t) ==
    /\ th[t].pc = "cache_lookup" /\ th[t].stack = <<"looked_up">>
    /\ th'[t].pc = "cache_lookup_count" /\ th'[t].element # 0

\* C17: on a cache hit the handler sends the payload stored for that key,
\* unmodified, and closes, without opening an upstream connection or
\* forwarding the request.
C17_HitServed ==
    [][\A t \in Threads :
         /\ Found(t) => /\ Whole(cache[th'[t].element])
                        /\ cache[th'[t].element].url = th[t].key
         /\ Hits(t) =>
               /\ th'[t].sent = cache[HitElement(t)].data
               /\ th'[t].server_socket = "none"
               /\ th'[t].client_closed = 1]_vars

\* thread t takes a step that writes the hit or miss counter (try.c 283,
\* 290) or reads the payload and length of the entry it holds (425)
Accesses(t) ==
    /\ th[t].pc = "cache_lookup_count" \/ Held(t)
    /\ th'[t] # th[t]

\* C19: every read and write of the shared cache state (list, payload,
\* length, lastAccess, currentSize, hit and miss counters) is made by a
\* worker that holds the cache lock.
C19_UnderLock ==
    [][\A t \in Threads : Accesses(t) => cache_lock = t]_vars

\* a lookup of thread t finds an entry: the scan of cache_lookup (try.c
\* 278-284), or a whole call of find_in_cache (proxy_server.c 292-302)
LookupHit(t) ==
    \/ /\ th[t].pc = "cache_lookup" /\ th'[t].pc = "cache_lookup_count"
       /\ th'[t].element # 0
    \/ /\ conns' = conns + 1 /\ th'[t].conn = conns'
       /\ th'[t].pc = "returned" /\ th'[t].arg = NoArg
       /\ th'[t].element # 0

\* C20: a successful lookup sets the entry's lastAccess to the current
\* time and increments the hit counter, a failed one increments the miss
\* counter.  Stated for the entries that are in the cache, whole.
C20_LookupTouches ==
    [][\A t \in Threads :
         /\ (LookupHit(t) /\ Whole(cache[th'[t].element])) =>
               cache'[th'[t].element].lru_time_track >= now
         /\ (th[t].pc = "cache_lookup_count" /\ th'[t] # th[t]) =>
               IF th[t].element # 0
               THEN total_hits' = total_hits + 1 /\ total_misses' = total_misses
               ELSE total_misses' = total_misses + 1 /\ total_hits' = total_hits]_vars

\* ------------------------------------------------ eviction and relay
\* C21: once an insert that evicted has completed, the evicted entries are
\* out of the cache store: every entry reachable from cache_head is a live
\* one (so a lookup of an evicted key misses and the entry count has
\* dropped by the number of evictions).
C21_EvictedRemoved == Quiescent => Live(cache) = 1..Len(cache)

\* the units of the accumulation buffer that a memcpy has written
Accumulated(buf) == {i \in 1..Len(buf.bytes) : buf.bytes[i] # 0}

\* C22: a response longer than max_element_size is still relayed to the
\* client chunk by chunk, it is never handed to the cache, and the bytes
\* accumulated for caching never go past max_element_size.
C22_OversizeRelayed ==
    [][/\ \A t \in Threads :
            /\ th'[t].pc \in {"relay", "store"} =>
                  Len(th'[t].sent) = th'[t].total_received
            /\ ( /\ th[t].pc = "store" /\ th'[t] # th[t]
                 /\ th[t].total_received > max_element_size ) =>
                    /\ th'[t].pc = "done"
                    /\ th'[t].sent = th[t].sent
                    /\ cachevars' = cachevars
       /\ \A i \in Accumulated(full_response') : i <= max_element_size]_vars

\* a handler of try.c relayed a response longer than max_element_size in
\* full and returned, and nothing is in the cache
C22_Witness ==
    \E t \in Threads :
        /\ impl = "final"
        /\ th[t].pc = "done"
        /\ Len(th[t].sent) > max_element_size
        /\ th[t].server_socket = "closed"
        /\ Accumulated(full_response) # {}
        /\ cache = <<>>

\* the handler of try.c returned after it had connected to the upstream:
\* the send to the upstream failed (442), or the relay loop was left, by
\* recv() <= 0 or a failed send to the client (458, 461) among others
UpstreamEnded(t) ==
    /\ Parsed(t)
    /\ th[t].pc = "done"
    /\ th[t].server_socket = "closed"

\* C23: when forwarding to the upstream or receiving from it fails, the
\* client gets a 500 exactly when no response byte was sent to it yet;
\* after some bytes were relayed the connection is closed with no error
\* response.
C23_UpstreamError ==
    \A t \in Threads :
        UpstreamEnded(t) => (th[t].status = 500 <=> th[t].sent = <<>>)

\* C24: the cache insert happens only on the success branch of the relay:
\* when the relay ended in a failure (receive error or timeout, failed
\* send to the client) after some bytes were received, the partial
\* response is not handed to the cache.
C24_NoPartialInsert ==
    [][\A t \in Threads :
         ( /\ th[t].pc = "store" /\ th'[t] # th[t]
           /\ th[t].ended = "failed" /\ th[t].total_received > 0 ) =>
              /\ th'[t].pc = "done"
              /\ cachevars' = cachevars]_vars

\* the handler of try.c is in its relay loop and has copied what it
\* received so far into the accumulation buffer
InFlight(t) ==
    /\ impl = "final"
    /\ th[t].pc = "relay"
    /\ th[t].total_received \in 1..max_element_size

\* C25: each response in flight has its own accumulation buffer: whatever
\* the other workers do, and whatever was handled before, the buffer of a
\* worker holds the bytes the upstream returned for its own request.
C25_OwnBuffer ==
    \A t \in Threads :
        InFlight(t) =>
            /\ full_response.state = "live"
            /\ Take(full_response.bytes, th[t].total_received) = th[t].sent

\* the worker is at the head of the eviction loop of cache_add with the
\* cache over its budget (try.c 338)
Evicting(t) == th[t].pc = "cache_add_evict" /\ current_size > max_cache_size

\* C26: the eviction loop terminates from every cache state with
\* current_size > max_cache_size, also when every entry carries the
\* current time: an iteration, at whatever time it reads the clock,
\* removes one entry that is in the cache and so decreases current_size.
C26_EvictionProgress ==
    \A t \in Threads :
        Evicting(t) =>
            \A ts \in time(now) :
                /\ to_evict(cache, ts) # 0
                /\ to_evict(cache, ts) \in Live(cache)
                /\ cache[to_evict(cache, ts)].len > 0

====
